---- MODULE Spec2Model ----
(***************************************************************************)
(* Model of ECC100Control (src/ECC100Control_lib.py): a ctypes binding     *)
(* over the Attocube ECC100 driver.  The binding keeps no state of its     *)
(* own; the state of the model is the observable effect of the last        *)
(* method call (native calls issued, exception raised, value returned,     *)
(* lines printed, answers read) plus the caller-side history of the        *)
(* connection handles.  The driver is opaque: the status code and the      *)
(* output slots of every native call are chosen nondeterministically.      *)
(*                                                                         *)
(* A Python int is unbounded.  It is represented as [hi, lo] standing for  *)
(* hi * 2^32 + lo with lo a signed 32-bit number, so that the ctypes       *)
(* conversion to c_int32 (which keeps the low 32 bits, without overflow    *)
(* check) is the projection on lo.                                         *)
(***************************************************************************)
EXTENDS Integers, Sequences, FiniteSets, TLC

VARIABLES call, native, outcome, result, exc, stdout, stdin, conn

vars == <<call, native, outcome, result, exc, stdout, stdin, conn>>

-----------------------------------------------------------------------------
(* Bounds of the model *)

MaxDevices == 2
MaxHandle == 2
MaxCode == 13

-----------------------------------------------------------------------------
(* Status constants of the class, lines 31-38 *)

NCB_Ok == 0
NCB_Error == -1
NCB_Timeout == 1
NCB_NotConnected == 2
NCB_DriverError == 3
NCB_DeviceLocked == 7
NCB_InvalidParam == 11
NCB_FeatureNotAvailable == 12

KnownCodes ==
    {NCB_Ok, NCB_Error, NCB_Timeout, NCB_NotConnected, NCB_DriverError,
     NCB_DeviceLocked, NCB_InvalidParam, NCB_FeatureNotAvailable}

-----------------------------------------------------------------------------
(* Python ints and the ctypes conversions *)

MaxInt32 == 2147483647
MinInt32 == (0 - MaxInt32) - 1

PyInt(hi, lo) == [hi |-> hi, lo |-> lo]

\* the Python int read from a c_int32 (.value) or returned through restype
FromInt32(n) == PyInt(0, n)

\* ctypes.c_int32(v), and the conversion of an argument declared c_int32 in
\* argtypes: the low 32 bits of v, read as a signed number
c_int32(v) == v.lo

\* ctypes.c_bool(b) for a Python bool
c_bool(b) == IF b THEN TRUE ELSE FALSE

\* comparisons of Python ints with a signed 32-bit number
PyLess(v, n) == v.hi < 0 \/ (v.hi = 0 /\ v.lo < n)
PyGreater(v, n) == v.hi > 0 \/ (v.hi = 0 /\ v.lo > n)

\* max(v, n) and min(v, n) of the builtins, n a signed 32-bit number
PyMax(v, n) == IF PyLess(v, n) THEN FromInt32(n) ELSE v
PyMin(v, n) == IF PyGreater(v, n) THEN FromInt32(n) ELSE v

-----------------------------------------------------------------------------
(* Inputs *)

\* status codes the driver returns in the model: success, the negative code,
\* three positive codes of the table, and one code outside the table
DriverCodes ==
    {NCB_Ok, NCB_Error, NCB_NotConnected, NCB_InvalidParam, NCB_FeatureNotAvailable, 5}
FailCodes == DriverCodes \ {NCB_Ok}

\* codes given to get_message
MsgCodes == (0 - MaxCode)..MaxCode

\* handle values the driver hands out; 0 is the initial value of the slot
Handles == 1..MaxHandle
HandleSlot == 0..MaxHandle

\* axes a caller passes (no validation: 5 is no axis of the device)
Axes == {0, 5}

\* amplitudes and frequencies a caller passes: 30, -2^31 and 2^31 (which
\* c_int32 turns into -2^31)
Values == {PyInt(0, 30), PyInt(0, MinInt32), PyInt(1, MinInt32)}

\* what the operator types at the prompt: <<v>> for the text of the integer
\* v, <<>> for a text int() rejects.  -1, 0, 1, MaxDevices, 2^32, 1 - 2^32
Typed ==
    {<<PyInt(0, -1)>>, <<PyInt(0, 0)>>, <<PyInt(0, 1)>>,
     <<PyInt(0, MaxDevices)>>, <<PyInt(1, 0)>>, <<PyInt(-1, 1)>>, <<>>}

\* what ECC_getDeviceInfo writes on success
OkInfo ==
    {[rc |-> NCB_Ok, dev_id |-> 17, locked |-> 0],
     [rc |-> NCB_Ok, dev_id |-> 23, locked |-> 1]}
BadInfo == [rc : FailCodes, dev_id : {0}, locked : {0}]

\* the answers of the driver to the device-info queries of one
\* select_device over n devices: the loop stops at the first failure
InfoRuns(n) ==
    [1..n -> OkInfo]
    \cup UNION {{p \o <<b>> : p \in [1..k -> OkInfo], b \in BadInfo} : k \in 0..(n - 1)}

-----------------------------------------------------------------------------
(* Records of the model *)

\* one call through the native boundary: entry point, marshalled arguments,
\* values left in the output slots, status returned
NativeCall(fn, args, out, rc) == [fn |-> fn, args |-> args, out |-> out, rc |-> rc]

\* the effect of one method call: native calls issued, exception raised,
\* value returned, lines printed, answers read at the prompt
Effect(nat, e, res, printed, answers) ==
    [native |-> nat, exc |-> e, result |-> res, stdout |-> printed, stdin |-> answers]

None == <<>>
NoException == <<>>

Raised(e) == e.exc # NoException

-----------------------------------------------------------------------------
(* Status translation, lines 78-93 *)

\* get_message with the table's entries for 11 and 12 exchanged
get_message_swapped(code) ==
    CASE code = NCB_Ok -> ""
      [] code = NCB_Error -> "Unspecified error"
      [] code = NCB_Timeout -> "Communication timeout"
      [] code = NCB_NotConnected -> "No active connection to device"
      [] code = NCB_DriverError -> "Error in communication with driver"
      [] code = NCB_DeviceLocked -> "Device is already in use by another"
      [] code = NCB_InvalidParam -> "Feature not available"
      [] code = NCB_FeatureNotAvailable -> "Parameter out of range"
      [] OTHER -> "Unknown error code"

\* error_messages.get(code, "Unknown error code")
get_message(code) ==
    CASE code = NCB_Ok -> ""
      [] code = NCB_Error -> "Unspecified error"
      [] code = NCB_Timeout -> "Communication timeout"
      [] code = NCB_NotConnected -> "No active connection to device"
      [] code = NCB_DriverError -> "Error in communication with driver"
      [] code = NCB_DeviceLocked -> "Device is already in use by another"
      [] code = NCB_InvalidParam -> "Parameter out of range"
      [] code = NCB_FeatureNotAvailable -> "Feature not available"
      [] OTHER -> "Unknown error code"

\* "Error calling {}: {}".format(context, message)
ErrorText(context, message) == "Error calling " \o context \o ": " \o message

\* check_error raising on positive codes only
check_error_positive(context, code) ==
    IF code > NCB_Ok
    THEN <<ErrorText(context, get_message(code))>>
    ELSE NoException

\* check_error: the exception raised, or none
check_error(context, code) ==
    IF code # NCB_Ok
    THEN <<ErrorText(context, get_message(code))>>
    ELSE NoException

-----------------------------------------------------------------------------
(* connect, lines 117-121.  slot is what the driver left in the handle     *)
(* slot, rc the status it returned.                                        *)

\* connect returning the slot without looking at the status
connect_unchecked(dev_no, slot, rc) ==
    Effect(<<NativeCall("ECC_Connect", <<c_int32(dev_no)>>, <<slot>>, rc)>>,
           NoException, <<FromInt32(slot)>>, <<>>, <<>>)

connect(dev_no, slot, rc) ==
    LET nat == <<NativeCall("ECC_Connect", <<c_int32(dev_no)>>, <<slot>>, rc)>>
        e == check_error("ECC_Connect", rc)
    IN  IF e # NoException
        THEN Effect(nat, e, None, <<>>, <<>>)
        ELSE Effect(nat, NoException, <<FromInt32(slot)>>, <<>>, <<>>)

-----------------------------------------------------------------------------
(* control_amplitude, lines 123-127, and control_frequency, lines 129-133 *)

\* control_amplitude naming the method instead of the entry point
control_amplitude_method_name(handle, axis, amplitude, rc) ==
    LET amp == c_int32(amplitude)
        nat == <<NativeCall("ECC_controlAmplitude",
                            <<c_int32(handle), c_int32(axis), amp, 1>>, <<amp>>, rc)>>
        e == check_error("control_amplitude", rc)
    IN  IF e # NoException
        THEN Effect(nat, e, None, <<>>, <<>>)
        ELSE Effect(nat, NoException, None, <<"Amplitude value updated correctly">>, <<>>)

\* control_amplitude asking for a read-back (flag 0)
control_amplitude_read(handle, axis, amplitude, rc) ==
    LET amp == c_int32(amplitude)
        nat == <<NativeCall("ECC_controlAmplitude",
                            <<c_int32(handle), c_int32(axis), amp, 0>>, <<amp>>, rc)>>
        e == check_error("ECC_controlAmplitude", rc)
    IN  IF e # NoException
        THEN Effect(nat, e, None, <<>>, <<>>)
        ELSE Effect(nat, NoException, None, <<"Amplitude value updated correctly">>, <<>>)

control_amplitude(handle, axis, amplitude, rc) ==
    LET amp == c_int32(amplitude)
        nat == <<NativeCall("ECC_controlAmplitude",
                            <<c_int32(handle), c_int32(axis), amp, 1>>, <<amp>>, rc)>>
        e == check_error("ECC_controlAmplitude", rc)
    IN  IF e # NoException
        THEN Effect(nat, e, None, <<>>, <<>>)
        ELSE Effect(nat, NoException, None, <<"Amplitude value updated correctly">>, <<>>)

\* control_frequency refusing a handle that is not open, without a native call
control_frequency_guarded(handle, axis, frequency, rc) ==
    LET freq == c_int32(frequency)
        nat == <<NativeCall("ECC_controlFrequency",
                            <<c_int32(handle), c_int32(axis), freq, 1>>, <<freq>>, rc)>>
        e == check_error("ECC_controlFrequency", rc)
    IN  IF conn[c_int32(handle)] # "open"
        THEN Effect(<<>>, <<ErrorText("ECC_controlFrequency", get_message(NCB_NotConnected))>>,
                    None, <<>>, <<>>)
        ELSE IF e # NoException
        THEN Effect(nat, e, None, <<>>, <<>>)
        ELSE Effect(nat, NoException, None, <<"Frequency value updated correctly">>, <<>>)

control_frequency(handle, axis, frequency, rc) ==
    LET freq == c_int32(frequency)
        nat == <<NativeCall("ECC_controlFrequency",
                            <<c_int32(handle), c_int32(axis), freq, 1>>, <<freq>>, rc)>>
        e == check_error("ECC_controlFrequency", rc)
    IN  IF e # NoException
        THEN Effect(nat, e, None, <<>>, <<>>)
        ELSE Effect(nat, NoException, None, <<"Frequency value updated correctly">>, <<>>)

-----------------------------------------------------------------------------
(* step, step_forward, step_backward, lines 135-146 *)

step(handle, axis, backward, rc) ==
    LET back == c_bool(backward)
        nat == <<NativeCall("ECC_setSingleStep",
                            <<c_int32(handle), c_int32(axis), back>>, <<>>, rc)>>
    IN  Effect(nat, check_error("ECC_setSingleStep", rc), None, <<>>, <<>>)

\* step_forward stepping backward
step_forward_reversed(handle, axis, rc) ==
    LET nat == <<NativeCall("ECC_setSingleStep",
                            <<c_int32(handle), c_int32(axis), c_bool(TRUE)>>, <<>>, rc)>>
    IN  Effect(nat, check_error("ECC_setSingleStep", rc), None, <<>>, <<>>)

step_forward(handle, axis, rc) ==
    LET nat == <<NativeCall("ECC_setSingleStep",
                            <<c_int32(handle), c_int32(axis), c_bool(FALSE)>>, <<>>, rc)>>
    IN  Effect(nat, check_error("ECC_setSingleStep", rc), None, <<>>, <<>>)

step_backward(handle, axis, rc) ==
    LET nat == <<NativeCall("ECC_setSingleStep",
                            <<c_int32(handle), c_int32(axis), c_bool(TRUE)>>, <<>>, rc)>>
    IN  Effect(nat, check_error("ECC_setSingleStep", rc), None, <<>>, <<>>)

-----------------------------------------------------------------------------
(* close_device, lines 148-150 *)

\* close_device checking the status like the other calls
close_device_checked(handle, rc) ==
    LET nat == <<NativeCall("ECC_Close", <<c_int32(handle)>>, <<>>, rc)>>
        e == check_error("ECC_Close", rc)
    IN  IF e # NoException
        THEN Effect(nat, e, None, <<>>, <<>>)
        ELSE Effect(nat, NoException, None, <<"Device disconnected">>, <<>>)

\* rc is assigned and never read
close_device(handle, rc) ==
    Effect(<<NativeCall("ECC_Close", <<c_int32(handle)>>, <<>>, rc)>>,
           NoException, None, <<"Device disconnected">>, <<>>)

-----------------------------------------------------------------------------
(* select_device, lines 95-115.  dev_count is what ECC_Check returned,     *)
(* infos the answers of the driver to the device-info queries, typed the   *)
(* operator's answer to the prompt.                                        *)

\* the queries made: up to and including the first one that fails
Queried(dev_count, infos) ==
    LET n == IF Len(infos) < dev_count THEN Len(infos) ELSE dev_count
        failing == {i \in 1..n : infos[i].rc # NCB_Ok}
    IN  IF failing = {}
        THEN n
        ELSE CHOOSE i \in failing : \A j \in failing : i <= j

\* the line printed for device i (0-based) after a successful query
DeviceLine(i, info) ==
    IF info.locked # 0
    THEN "Device " \o ToString(i) \o ": locked"
    ELSE "Device " \o ToString(i) \o ": Id=" \o ToString(info.dev_id)

\* the lines printed by the first k queries, the failing one excepted
DeviceLines(k, infos) ==
    LET printing == {i \in 1..k : infos[i].rc = NCB_Ok}
    IN  [i \in 1..Cardinality(printing) |-> DeviceLine(i - 1, infos[i])]

InfoCalls(k, infos) ==
    [i \in 1..k |->
        NativeCall("ECC_getDeviceInfo", <<i - 1>>,
                   <<infos[i].dev_id, infos[i].locked>>, infos[i].rc)]

\* min(max(dev_no, 0), dev_count - 1)
ClampIndex(dev_no, dev_count) == PyMin(PyMax(dev_no, 0), dev_count - 1)

\* select_device going on when the driver reports no device (< instead of <=)
select_device_zero_passes(dev_count, infos, typed) ==
    LET check == NativeCall("ECC_Check", <<>>, <<>>, dev_count)
        k == Queried(dev_count, infos)
        nat == <<check>> \o InfoCalls(k, infos)
        printed == DeviceLines(k, infos)
    IN  IF dev_count < 0
        THEN Effect(<<check>>, <<"No devices found">>, None, <<>>, <<>>)
        ELSE IF k > 0 /\ infos[k].rc # NCB_Ok
        THEN Effect(nat, check_error("ECC_getDeviceInfo", infos[k].rc), None, printed, <<>>)
        ELSE IF dev_count > 1
        THEN IF typed = <<>>
             THEN Effect(nat, <<"ValueError">>, None, printed, <<typed>>)
             ELSE Effect(nat, NoException, <<ClampIndex(typed[1], dev_count)>>, printed, <<typed>>)
        ELSE Effect(nat, NoException, <<FromInt32(0)>>, printed, <<>>)

\* select_device without the upper clamp
select_device_no_upper(dev_count, infos, typed) ==
    LET check == NativeCall("ECC_Check", <<>>, <<>>, dev_count)
        k == Queried(dev_count, infos)
        nat == <<check>> \o InfoCalls(k, infos)
        printed == DeviceLines(k, infos)
    IN  IF dev_count <= 0
        THEN Effect(<<check>>, <<"No devices found">>, None, <<>>, <<>>)
        ELSE IF k > 0 /\ infos[k].rc # NCB_Ok
        THEN Effect(nat, check_error("ECC_getDeviceInfo", infos[k].rc), None, printed, <<>>)
        ELSE IF dev_count > 1
        THEN IF typed = <<>>
             THEN Effect(nat, <<"ValueError">>, None, printed, <<typed>>)
             ELSE Effect(nat, NoException, <<PyMax(typed[1], 0)>>, printed, <<typed>>)
        ELSE Effect(nat, NoException, <<FromInt32(0)>>, printed, <<>>)

select_device(dev_count, infos, typed) ==
    LET check == NativeCall("ECC_Check", <<>>, <<>>, dev_count)
        k == Queried(dev_count, infos)
        nat == <<check>> \o InfoCalls(k, infos)
        printed == DeviceLines(k, infos)
    IN  IF dev_count <= 0
        THEN Effect(<<check>>, <<"No devices found">>, None, <<>>, <<>>)
        ELSE IF k > 0 /\ infos[k].rc # NCB_Ok
        THEN Effect(nat, check_error("ECC_getDeviceInfo", infos[k].rc), None, printed, <<>>)
        ELSE IF dev_count > 1
        THEN IF typed = <<>>
             THEN Effect(nat, <<"ValueError">>, None, printed, <<typed>>)
             ELSE Effect(nat, NoException, <<ClampIndex(typed[1], dev_count)>>, printed, <<typed>>)
        ELSE Effect(nat, NoException, <<FromInt32(0)>>, printed, <<>>)

-----------------------------------------------------------------------------
(* The state machine: one action per public method *)

\* the history of a handle as its caller sees it
ConnStates == {"never", "open", "closed"}

\* arguments a caller passes for a handle and for a device index
HandleArgs == {FromInt32(h) : h \in Handles}
AxisArgs == {FromInt32(a) : a \in Axes}
DevNoArgs == {FromInt32(d) : d \in 0..(MaxDevices - 1)}

Init ==
    /\ call = [op |-> "__init__", args |-> <<>>]
    /\ native = <<>>
    /\ outcome = "returned"
    /\ result = None
    /\ exc = NoException
    /\ stdout = <<>>
    /\ stdin = <<>>
    /\ conn = [h \in Handles |-> "never"]

\* the method op was called with args and had effect e
Apply(op, args, e) ==
    /\ call' = [op |-> op, args |-> args]
    /\ native' = e.native
    /\ outcome' = IF Raised(e) THEN "raised" ELSE "returned"
    /\ result' = e.result
    /\ exc' = e.exc
    /\ stdout' = e.stdout
    /\ stdin' = e.stdin

GetMessage ==
    \E code \in MsgCodes :
        /\ Apply("get_message", <<code>>,
                 Effect(<<>>, NoException, <<get_message(code)>>, <<>>, <<>>))
        /\ UNCHANGED conn

SelectDevice ==
    \E dev_count \in (-1)..MaxDevices :
        \E infos \in InfoRuns(IF dev_count > 0 THEN dev_count ELSE 0) :
            \E typed \in (IF dev_count > 1 /\ Len(infos) = dev_count
                                /\ infos[dev_count].rc = NCB_Ok
                          THEN Typed ELSE {<<>>}) :
                /\ Apply("select_device", <<>>, select_device(dev_count, infos, typed))
                /\ UNCHANGED conn

Connect ==
    \E dev_no \in DevNoArgs, rc \in DriverCodes :
        \E slot \in (IF rc = NCB_Ok THEN Handles ELSE HandleSlot) :
            LET e == connect(dev_no, slot, rc)
            IN  /\ Apply("connect", <<dev_no>>, e)
                /\ conn' = IF ~Raised(e) /\ e.result[1].lo \in Handles
                           THEN [conn EXCEPT ![e.result[1].lo] = "open"]
                           ELSE conn

ControlAmplitude ==
    \E handle \in HandleArgs, axis \in AxisArgs, amplitude \in Values, rc \in DriverCodes :
        /\ Apply("control_amplitude", <<handle, axis, amplitude>>,
                 control_amplitude(handle, axis, amplitude, rc))
        /\ UNCHANGED conn

ControlFrequency ==
    \E handle \in HandleArgs, axis \in AxisArgs, frequency \in Values, rc \in DriverCodes :
        /\ Apply("control_frequency", <<handle, axis, frequency>>,
                 control_frequency(handle, axis, frequency, rc))
        /\ UNCHANGED conn

Step ==
    \E handle \in HandleArgs, axis \in AxisArgs, backward \in BOOLEAN, rc \in DriverCodes :
        /\ Apply("step", <<handle, axis, backward>>, step(handle, axis, backward, rc))
        /\ UNCHANGED conn

StepForward ==
    \E handle \in HandleArgs, axis \in AxisArgs, rc \in DriverCodes :
        /\ Apply("step_forward", <<handle, axis>>, step_forward(handle, axis, rc))
        /\ UNCHANGED conn

StepBackward ==
    \E handle \in HandleArgs, axis \in AxisArgs, rc \in DriverCodes :
        /\ Apply("step_backward", <<handle, axis>>, step_backward(handle, axis, rc))
        /\ UNCHANGED conn

CloseDevice ==
    \E handle \in HandleArgs, rc \in DriverCodes :
        /\ Apply("close_device", <<handle>>, close_device(handle, rc))
        /\ conn' = IF conn[handle.lo] = "open"
                   THEN [conn EXCEPT ![handle.lo] = "closed"]
                   ELSE conn

Next ==
    \/ GetMessage
    \/ SelectDevice
    \/ Connect
    \/ ControlAmplitude
    \/ ControlFrequency
    \/ Step
    \/ StepForward
    \/ StepBackward
    \/ CloseDevice

Spec == Init /\ [][Next]_vars

TypeOK ==
    /\ outcome \in {"returned", "raised"}
    /\ Len(stdin) <= 1
    /\ conn \in [Handles -> ConnStates]
    /\ Len(exc) <= 1
    /\ Len(result) <= 1

-----------------------------------------------------------------------------
(* Properties *)

\* the status the driver returned to the only native call of the last method
Status == native[1].rc

PerDeviceOps ==
    {"control_amplitude", "control_frequency", "step", "step_forward",
     "step_backward", "close_device"}

\* the message table as the specification lists it
MessageTable ==
    (0 :> "") @@ (-1 :> "Unspecified error") @@ (1 :> "Communication timeout")
    @@ (2 :> "No active connection to device")
    @@ (3 :> "Error in communication with driver")
    @@ (7 :> "Device is already in use by another")
    @@ (11 :> "Parameter out of range") @@ (12 :> "Feature not available")

\* C1 as stated: get_message returns the table's string for each of the 8
\* known codes and "Unknown error code." (with a final full stop) for any
\* other integer.
C1_Original ==
    call.op = "get_message" =>
        result = <<IF call.args[1] \in DOMAIN MessageTable
                   THEN MessageTable[call.args[1]]
                   ELSE "Unknown error code.">>

\* C1 amended: get_message returns the table's string for each of the 8 known
\* codes and "Unknown error code" (no final full stop) for any other integer.
C1_Messages ==
    call.op = "get_message" =>
        result = <<IF call.args[1] \in DOMAIN MessageTable
                   THEN MessageTable[call.args[1]]
                   ELSE "Unknown error code">>

C1_Witness ==
    /\ call.op = "get_message"
    /\ call.args[1] = 9
    /\ result = <<"Unknown error code">>

\* the name each checked method gives to check_error
EntryPointOf ==
    [connect |-> "ECC_Connect",
     control_amplitude |-> "ECC_controlAmplitude",
     control_frequency |-> "ECC_controlFrequency",
     step |-> "ECC_setSingleStep",
     step_forward |-> "ECC_setSingleStep",
     step_backward |-> "ECC_setSingleStep"]

\* C2: every wrapped call except disconnect raises, with the name of the
\* operation and the message of the code, when the driver returns a non-zero
\* status, and goes on without raising when the driver returns zero.  For
\* select_device the wrapped call is each device-info query.
C2_NonZeroRaises ==
    /\ call.op \in DOMAIN EntryPointOf =>
        /\ Status # 0 =>
            /\ outcome = "raised"
            /\ exc = <<"Error calling " \o EntryPointOf[call.op] \o ": "
                       \o get_message(Status)>>
        /\ Status = 0 => outcome = "returned" /\ exc = <<>>
    /\ call.op = "select_device" =>
        \A i \in 2..Len(native) :
            /\ native[i].rc # 0 =>
                /\ i = Len(native)
                /\ outcome = "raised"
                /\ exc = <<"Error calling ECC_getDeviceInfo: "
                           \o get_message(native[i].rc)>>
            /\ (native[i].rc = 0 /\ i = Len(native)) =>
                exc \in {<<>>, <<"ValueError">>}
            /\ (native[i].rc = 0 /\ i < Len(native)) =>
                native[i + 1].args = <<i - 1>>

C2_Witness ==
    /\ call.op = "step_backward"
    /\ Status = -1
    /\ outcome = "raised"
    /\ exc = <<"Error calling ECC_setSingleStep: Unspecified error">>

\* C3: close_device never raises, whatever status ECC_Close returns, and
\* issues ECC_Close exactly once.
C3_CloseNeverRaises ==
    call.op = "close_device" =>
        /\ outcome = "returned"
        /\ exc = <<>>
        /\ Len(native) = 1
        /\ native[1].fn = "ECC_Close"
        /\ native[1].args = <<call.args[1].lo>>

C3_Witness ==
    /\ call.op = "close_device"
    /\ Status = 2
    /\ outcome = "returned"

\* C4 as stated: control_amplitude with status 11 raises with message
\* "Parameter out of range" and context "control_amplitude".
C4_Original ==
    (call.op = "control_amplitude" /\ Status = 11) =>
        /\ outcome = "raised"
        /\ exc = <<"Error calling control_amplitude: Parameter out of range">>

\* C4 amended: control_amplitude with status 11 raises with message
\* "Parameter out of range" and context "ECC_controlAmplitude", the name of
\* the native entry point.
C4_InvalidParam ==
    (call.op = "control_amplitude" /\ Status = 11) =>
        /\ outcome = "raised"
        /\ exc = <<"Error calling ECC_controlAmplitude: Parameter out of range">>

C4_Witness ==
    /\ call.op = "control_amplitude"
    /\ Status = 11
    /\ outcome = "raised"

\* the index the clamp of v into [0, count - 1] gives
Clamped(v, count) ==
    IF v.hi < 0 \/ (v.hi = 0 /\ v.lo < 0) THEN 0
    ELSE IF v.hi > 0 \/ v.lo > count - 1 THEN count - 1
    ELSE v.lo

\* C5: when select_device returns, it returns an index in [0, count - 1]:
\* the entered integer clamped into the range when count > 1, and 0 without
\* a prompt when count = 1.
C5_IndexInRange ==
    (call.op = "select_device" /\ outcome = "returned") =>
        LET count == native[1].rc
        IN  /\ count >= 1
            /\ Len(result) = 1
            /\ result[1].hi = 0
            /\ result[1].lo \in 0..(count - 1)
            /\ count = 1 => stdin = <<>> /\ result[1].lo = 0
            /\ count > 1 =>
                /\ Len(stdin) = 1
                /\ Len(stdin[1]) = 1
                /\ result[1].lo = Clamped(stdin[1][1], count)

C5_Witness ==
    /\ call.op = "select_device"
    /\ outcome = "returned"
    /\ native[1].rc = 2
    /\ stdin = <<(<<PyInt(1, 0)>>)>>
    /\ result = <<PyInt(0, 1)>>

\* C6: select_device raises "No devices found" whenever ECC_Check returns 0
\* or a negative number, and then makes no device-info query and shows no
\* prompt; for a positive count it does not raise "No devices found".
C6_NoDevices ==
    call.op = "select_device" =>
        /\ native[1].fn = "ECC_Check"
        /\ native[1].rc <= 0 =>
            /\ outcome = "raised"
            /\ exc = <<"No devices found">>
            /\ Len(native) = 1
            /\ stdin = <<>>
            /\ stdout = <<>>
        /\ native[1].rc > 0 => exc # <<"No devices found">>

C6_Witness ==
    /\ call.op = "select_device"
    /\ native[1].rc = 0
    /\ outcome = "raised"
    /\ exc = <<"No devices found">>

\* C7: connect returns exactly the handle the driver wrote to the slot when
\* the status is 0, and raises, returning no handle, when it is not.
C7_ConnectHandle ==
    call.op = "connect" =>
        /\ Len(native) = 1
        /\ native[1].fn = "ECC_Connect"
        /\ native[1].args = <<call.args[1].lo>>
        /\ Status = 0 =>
            /\ outcome = "returned"
            /\ result = <<PyInt(0, native[1].out[1])>>
        /\ Status # 0 =>
            /\ outcome = "raised"
            /\ result = <<>>

C7_Witness ==
    /\ call.op = "connect"
    /\ Status = 0
    /\ native[1].out = <<2>>
    /\ result = <<PyInt(0, 2)>>

\* C8: whatever the history of a handle (never obtained, open, closed), a
\* per-device operation called with it is forwarded as exactly one native
\* call carrying that handle and axis; nothing is rejected locally and the
\* outcome depends only on the status the driver returns.
C8_NoEnforcement ==
    \A h \in Handles : \A s \in ConnStates :
        (call.op \in PerDeviceOps /\ call.args[1] = PyInt(0, h) /\ conn[h] = s) =>
            /\ Len(native) = 1
            /\ native[1].args[1] = h
            /\ call.op # "close_device" =>
                /\ native[1].args[2] = call.args[2].lo
                /\ (outcome = "raised") <=> (Status # 0)
            /\ call.op = "close_device" => outcome = "returned"

C8_Witness ==
    /\ call.op = "control_frequency"
    /\ conn[call.args[1].lo] = "closed"
    /\ Len(native) = 1
    /\ native[1].args[1] = call.args[1].lo
    /\ outcome = "returned"

\* C9 as stated: control_amplitude and control_frequency call the driver with
\* the direction flag 1 and with the caller's handle, axis and value
\* unchanged, for every handle, axis and value.
C9_Original ==
    call.op \in {"control_amplitude", "control_frequency"} =>
        /\ Len(native) = 1
        /\ native[1].args[4] = 1
        /\ \A k \in 1..3 : PyInt(0, native[1].args[k]) = call.args[k]

\* C9 amended: control_amplitude and control_frequency call the driver with
\* the direction flag 1 and with the caller's handle, axis and value
\* unchanged, for every handle, axis and value in the signed 32-bit range; a
\* value outside the range is passed reduced modulo 2^32.
C9_AlwaysWrites ==
    call.op \in {"control_amplitude", "control_frequency"} =>
        /\ Len(native) = 1
        /\ native[1].fn = (IF call.op = "control_amplitude"
                           THEN "ECC_controlAmplitude" ELSE "ECC_controlFrequency")
        /\ native[1].args[4] = 1
        /\ \A k \in 1..3 :
            /\ call.args[k].hi = 0 => PyInt(0, native[1].args[k]) = call.args[k]
            /\ native[1].args[k] = call.args[k].lo

C9_Witness ==
    /\ call.op = "control_amplitude"
    /\ call.args[3] = PyInt(0, 30)
    /\ native[1].args = <<call.args[1].lo, call.args[2].lo, 30, 1>>

\* C10: step issues exactly one ECC_setSingleStep with the given handle, axis
\* and direction; step_forward behaves as step with backward = False and
\* step_backward as step with backward = True, up to the raise on a non-zero
\* status.
C10_StepEquivalence ==
    /\ call.op = "step" =>
        /\ Len(native) = 1
        /\ native[1].fn = "ECC_setSingleStep"
        /\ native[1].args = <<call.args[1].lo, call.args[2].lo, call.args[3]>>
    /\ \A b \in BOOLEAN :
        call.op = (IF b THEN "step_backward" ELSE "step_forward") =>
            LET e == step(call.args[1], call.args[2], b, Status)
            IN  /\ Len(native) = 1
                /\ native[1].args[3] = b
                /\ native = e.native
                /\ exc = e.exc
                /\ result = e.result
                /\ stdout = e.stdout
                /\ outcome = (IF Raised(e) THEN "raised" ELSE "returned")

C10_Witness ==
    /\ call.op = "step_forward"
    /\ Status = 2
    /\ native[1].args[3] = FALSE
    /\ exc = <<"Error calling ECC_setSingleStep: No active connection to device">>

====
